---- MODULE Spec2Model ----
(***************************************************************************)
(* Model of Python/pywarpx/particle_containers.py: the two accessor        *)
(* classes ParticleContainerWrapper and ParticleBoundaryBufferWrapper and  *)
(* the part of the native engine (libwarpx) they forward to.               *)
(*                                                                         *)
(* Python strings that the code takes apart (boundary tokens) are          *)
(* sequences of one-character strings; names that are only looked up       *)
(* (attribute names, species names, geometry modes) are TLA+ strings.      *)
(* A Python call returns Ok(value) or Raise(exception class, subject).     *)
(***************************************************************************)
EXTENDS Integers, Sequences, FiniteSets, TLC

VARIABLES
    geometry_dim,   \* libwarpx.geometry_dim, the process-wide geometry mode
    comps,          \* engine: per species, real component name -> index
    ptiles,         \* engine: per species, per level, particles on each tile
    batches,        \* engine: per species, the add_n_particles calls it received
    buffer,         \* engine: boundary buffer, slot -> scraped particle count
    call,           \* the call the client makes (operation and arguments)
    ncalls,         \* how many times that call has been made
    result          \* what the last call returned or raised

vars == <<geometry_dim, comps, ptiles, batches, buffer, call, ncalls, result>>

----------------------------------------------------------------------------
(* Bounds of the model *)

\* longest array a caller passes to add_particles
MaxLen == 2
\* most columns (built-in or keyword) one add_particles call supplies
MaxSupplied == 2
\* most "_"-separated parts of a boundary token
MaxParts == 3
\* most particles the engine has scraped into the boundary buffer
MaxScraped == 1
\* most times in a row a client repeats one call
MaxCalls == 2

----------------------------------------------------------------------------
(* Python values *)

Ok(v) == [tag |-> "ok", val |-> v]
Raise(e, subject) == [tag |-> "raise", err |-> e, subject |-> subject]
NoResult == [tag |-> "none"]
PyNone == Ok("None")

Max2(a, b) == IF a >= b THEN a ELSE b

RECURSIVE SplitAcc(_, _, _)
SplitAcc(s, cur, acc) ==
    IF s = <<>> THEN Append(acc, cur)
    ELSE IF Head(s) = "_" THEN SplitAcc(Tail(s), <<>>, Append(acc, cur))
    ELSE SplitAcc(Tail(s), Append(cur, Head(s)), acc)

\* str.split("_")
Split(s) == SplitAcc(s, <<>>, <<>>)

RECURSIVE Join(_)
\* "_".join(parts)
Join(parts) ==
    IF Len(parts) = 1 THEN parts[1]
    ELSE parts[1] \o <<"_">> \o Join(Tail(parts))

Str_x == <<"x">>
Str_y == <<"y">>
Str_z == <<"z">>
Str_lo == <<"l", "o">>
Str_hi == <<"h", "i">>
Str_eb == <<"e", "b">>
Str_foo == <<"f", "o", "o">>
Str_empty == <<>>

----------------------------------------------------------------------------
(* The boundary index: ParticleBoundaryBufferWrapper._get_boundary_number *)

KnownGeometries == {"3d", "2d", "rz", "1d"}
Geometries == KnownGeometries \cup {"unknown"}

\* the dict `dimensions` of the active geometry
dimensions(geom) ==
    IF geom = "3d" THEN (Str_x :> 0) @@ (Str_y :> 1) @@ (Str_z :> 2)
    ELSE IF geom = "2d" \/ geom = "rz" THEN (Str_x :> 0) @@ (Str_z :> 1)
    ELSE (Str_z :> 0)

\* the non-'eb' branch with boundary_num = dim_num + side
SideBoundaryNumber_NoDoubling(geom, boundary) ==
    LET boundary_parts == Split(boundary)
    IN  IF boundary_parts[1] \notin DOMAIN dimensions(geom)
        THEN Raise("KeyError", boundary_parts[1])
        ELSE IF Len(boundary_parts) < 2
        THEN Raise("IndexError", boundary)
        ELSE IF boundary_parts[2] = Str_lo
        THEN Ok(dimensions(geom)[boundary_parts[1]] + 0)
        ELSE IF boundary_parts[2] = Str_hi
        THEN Ok(dimensions(geom)[boundary_parts[1]] + 1)
        ELSE Raise("RuntimeError", boundary)

\* the non-'eb' branch: split, look the axis up, read the side
SideBoundaryNumber(geom, boundary) ==
    LET boundary_parts == Split(boundary)
    IN  IF boundary_parts[1] \notin DOMAIN dimensions(geom)
        THEN Raise("KeyError", boundary_parts[1])
        ELSE IF Len(boundary_parts) < 2
        THEN Raise("IndexError", boundary)
        ELSE IF boundary_parts[2] = Str_lo
        THEN Ok(2 * dimensions(geom)[boundary_parts[1]] + 0)
        ELSE IF boundary_parts[2] = Str_hi
        THEN Ok(2 * dimensions(geom)[boundary_parts[1]] + 1)
        ELSE Raise("RuntimeError", boundary)

\* the 'eb' branch
EbBoundaryNumber(geom) ==
    IF geom = "3d" THEN Ok(6)
    ELSE IF geom = "2d" \/ geom = "rz" THEN Ok(4)
    ELSE IF geom = "1d" THEN Ok(2)
    ELSE Raise("RuntimeError", <<>>)

_get_boundary_number(geom, boundary) ==
    IF geom \notin KnownGeometries THEN Raise("RuntimeError", <<>>)
    ELSE IF boundary # Str_eb THEN SideBoundaryNumber(geom, boundary)
    ELSE EbBoundaryNumber(geom)

\* the words boundary tokens are built from
PartWords == {Str_x, Str_y, Str_z, Str_lo, Str_hi, Str_eb, Str_foo, Str_empty}

\* the tokens a caller passes: 1..MaxParts words joined by "_"
Tokens == { Join(ps) : ps \in UNION { [1..n -> PartWords] : n \in 1..MaxParts } }

----------------------------------------------------------------------------
(* The native engine, as far as the wrappers use it *)

Species == {"electrons", "ions"}
Levels == {0, 1}
TileIds == {1, 2}

\* real components every species has: the weight, the three momenta and, in
\* RZ, theta ("The three velocities", "With RZ, there is also theta",
\* "extra attributes (including the weight)")
BaseComps(geom) ==
    IF geom = "rz"
    THEN ("w" :> 0) @@ ("ux" :> 1) @@ ("uy" :> 2) @@ ("uz" :> 3) @@ ("theta" :> 4)
    ELSE ("w" :> 0) @@ ("ux" :> 1) @@ ("uy" :> 2) @@ ("uz" :> 3)

\* particle_container.num_real_comps()
num_real_comps(c) == Cardinality(DOMAIN c)

\* particle_container.get_comp_index(name): fails on an unknown name
get_comp_index(c, name) ==
    IF name \in DOMAIN c THEN Ok(c[name]) ELSE Raise("EngineError", name)

\* particle_container.add_real_comp(name, comm): a new name gets the next index
EngineAddRealComp(c, name) ==
    IF name \in DOMAIN c THEN c ELSE c @@ (name :> num_real_comps(c))

\* the schema of a species after add_real_comp("extra1")
ExtraComps(geom) == EngineAddRealComp(BaseComps(geom), "extra1")

\* particle_container.add_n_particles(lev, n, ...): the batch joins the
\* container; its n particles land on the first tile of level lev
EngineAddNParticles(tiles, batch) ==
    IF batch.n = 0 THEN tiles
    ELSE IF tiles[batch.lev] = <<>> THEN [tiles EXCEPT ![batch.lev] = <<batch.n>>]
    ELSE [tiles EXCEPT ![batch.lev][1] = @ + batch.n]

RECURSIVE SumSeq(_)
SumSeq(s) == IF s = <<>> THEN 0 ELSE Head(s) + SumSeq(Tail(s))

\* particle_container.total_number_of_particles(True, local)
total_number_of_particles(tiles) ==
    SumSeq([i \in 1..Cardinality(Levels) |-> SumSeq(tiles[i - 1])])

EmptyTiles == [l \in Levels |-> <<>>]

----------------------------------------------------------------------------
(* ParticleContainerWrapper.add_particles *)

BuiltIns == <<"x", "y", "z", "ux", "uy", "uz", "w">>
BuiltInSet == {BuiltIns[i] : i \in 1..Len(BuiltIns)}
KwNames == {"theta", "extra1"}

\* the value an array passed for a field is filled with (0 is the default)
FieldVal(f) ==
    CASE f = "x" -> 1 [] f = "y" -> 2 [] f = "z" -> 3 [] f = "ux" -> 4
      [] f = "uy" -> 5 [] f = "uz" -> 6 [] f = "w" -> 7 [] f = "theta" -> 8
      [] f = "extra1" -> 9

\* np.full(n, v)
np_full(n, v) == [i \in 1..n |-> v]

\* keyword arguments: distinct keys in the caller's order, each with a length
RECURSIVE KwSeqs(_)
KwSeqs(n) ==
    IF n = 0 THEN {<<>>}
    ELSE LET shorter == KwSeqs(n - 1)
         IN  shorter \cup
             { Append(s, <<k, l>>) :
                 s \in {t \in shorter : Len(t) = n - 1},
                 k \in KwNames, l \in 0..MaxLen }

DistinctKeys(kw) == \A i, j \in 1..Len(kw) : i # j => kw[i][1] # kw[j][1]

SmallSubsets(S, n) == {T \in SUBSET S : Cardinality(T) <= n}

\* the arguments of one add_particles call: b maps each supplied built-in
\* field to the length of what was passed (a scalar has size 1), kw is **kwargs
\* (unique_particles is left at its default)
AddArgs ==
    { [b |-> bl, kw |-> ks, unique_particles |-> TRUE] :
        bl \in UNION { [T -> 0..MaxLen] : T \in SmallSubsets(BuiltInSet, MaxSupplied) },
        ks \in {s \in KwSeqs(MaxSupplied) : DistinctKeys(s)} }

Supplied(a) == Cardinality(DOMAIN a.b) + Len(a.kw)

\* np.size of a built-in argument: np.size(None) is 1
SizeOf(a, f) == IF f \in DOMAIN a.b THEN a.b[f] ELSE 1

RECURSIVE MaxLenFrom(_, _)
MaxLenFrom(a, i) ==
    IF i > Len(BuiltIns) THEN 0
    ELSE LET rest == MaxLenFrom(a, i + 1)
         IN  IF BuiltIns[i] \in DOMAIN a.b THEN Max2(rest, a.b[BuiltIns[i]]) ELSE rest

\* "Find the max length of the parameters supplied"
maxlen(a) == MaxLenFrom(a, 1)

\* the asserts, in order: the first field whose length is not consistent
BuiltInFails(a, f) ==
    ~(f \notin DOMAIN a.b \/ SizeOf(a, f) = maxlen(a) \/ SizeOf(a, f) = 1)

KwFails(a, i) == ~(a.kw[i][2] = 1 \/ a.kw[i][2] = maxlen(a))

\* the asserts without the loop over kwargs
FirstMismatch_BuiltInsOnly(a) ==
    IF \E i \in 1..Len(BuiltIns) : BuiltInFails(a, BuiltIns[i])
    THEN LET i == CHOOSE i \in 1..Len(BuiltIns) :
                    /\ BuiltInFails(a, BuiltIns[i])
                    /\ \A j \in 1..(i - 1) : ~BuiltInFails(a, BuiltIns[j])
         IN  <<BuiltIns[i]>>
    ELSE <<>>

FirstMismatch(a) ==
    IF \E i \in 1..Len(BuiltIns) : BuiltInFails(a, BuiltIns[i])
    THEN LET i == CHOOSE i \in 1..Len(BuiltIns) :
                    /\ BuiltInFails(a, BuiltIns[i])
                    /\ \A j \in 1..(i - 1) : ~BuiltInFails(a, BuiltIns[j])
         IN  <<BuiltIns[i]>>
    ELSE IF \E i \in 1..Len(a.kw) : KwFails(a, i)
    THEN LET i == CHOOSE i \in 1..Len(a.kw) :
                    /\ KwFails(a, i)
                    /\ \A j \in 1..(i - 1) : ~KwFails(a, j)
         IN  <<a.kw[i][1]>>
    ELSE <<>>

\* "Broadcast scalars into appropriate length arrays": a built-in of size 1
\* (a scalar, a one-element array or None) becomes np.full(maxlen, (f or 0.))
\* the broadcast that expands only what the caller supplied
BroadcastBuiltIn_SuppliedOnly(a, f) ==
    IF f \notin DOMAIN a.b THEN np_full(1, 0)
    ELSE IF SizeOf(a, f) = 1 THEN np_full(maxlen(a), FieldVal(f))
    ELSE np_full(a.b[f], FieldVal(f))

BroadcastBuiltIn(a, f) ==
    IF SizeOf(a, f) = 1
    THEN np_full(maxlen(a), IF f \in DOMAIN a.b THEN FieldVal(f) ELSE 0)
    ELSE np_full(a.b[f], FieldVal(f))

BroadcastKw(a, i) ==
    IF a.kw[i][2] = 1 THEN np_full(maxlen(a), FieldVal(a.kw[i][1]))
    ELSE np_full(a.kw[i][2], FieldVal(a.kw[i][1]))

\* "The number of built in attributes"
built_in_attrs(geom) == IF geom = "rz" THEN 3 + 1 ELSE 3

\* "The number of extra attributes (including the weight)"
nattr(geom, c) == num_real_comps(c) - built_in_attrs(geom)

\* attr[:, col] = vals with numpy's indexing: a negative col counts from the
\* end; the table is a sequence of columns, column k stored at position k + 1
ColumnPos(n, col) == IF col >= 0 THEN col + 1 ELSE n + col + 1

RECURSIVE WriteKw(_, _, _, _, _)
\* the loop over kwargs that fills attr; an unknown key raises in the lookup
WriteKw(geom, c, a, i, attr) ==
    IF i > Len(a.kw) THEN Ok(attr)
    ELSE LET idx == get_comp_index(c, a.kw[i][1])
         IN  IF idx.tag = "raise" THEN idx
             ELSE LET col == idx.val - built_in_attrs(geom)
                      pos == ColumnPos(Len(attr), col)
                  IN  IF pos < 1 \/ pos > Len(attr)
                      THEN Raise("IndexError", a.kw[i][1])
                      ELSE WriteKw(geom, c, a, i + 1,
                                   [attr EXCEPT ![pos] = BroadcastKw(a, i)])

\* attr = np.zeros((maxlen, nattr)); attr[:,0] = w; then the kwargs
AttrTable(geom, c, a) ==
    IF nattr(geom, c) < 1 THEN Raise("IndexError", "w")
    ELSE WriteKw(geom, c, a, 1,
                 [[k \in 1..nattr(geom, c) |-> np_full(maxlen(a), 0)]
                    EXCEPT ![1] = BroadcastBuiltIn(a, "w")])

\* what add_particles hands to add_n_particles, or the exception it raises
AddParticlesBatch(geom, c, a) ==
    IF FirstMismatch(a) # <<>> THEN Raise("AssertionError", FirstMismatch(a)[1])
    ELSE LET attr == AttrTable(geom, c, a)
         IN  IF attr.tag = "raise" THEN attr
             ELSE Ok([lev |-> 0,
                      n |-> Len(BroadcastBuiltIn(a, "x")),
                      x |-> BroadcastBuiltIn(a, "x"),
                      y |-> BroadcastBuiltIn(a, "y"),
                      z |-> BroadcastBuiltIn(a, "z"),
                      ux |-> BroadcastBuiltIn(a, "ux"),
                      uy |-> BroadcastBuiltIn(a, "uy"),
                      uz |-> BroadcastBuiltIn(a, "uz"),
                      nattr |-> nattr(geom, c),
                      attr |-> attr.val,
                      nattr_int |-> 0,
                      attr_int |-> <<>>,
                      unique_particles |-> a.unique_particles])

\* add_particles that hands the positions and momenta to the container as
\* soon as the lengths are checked, ahead of the schema lookups
add_particles_SubmitBeforeLookup ==
    /\ call.op = "add_particles"
    /\ ncalls < MaxCalls
    /\ LET s == call.species
           a == call.args
           r == AddParticlesBatch(geometry_dim, comps[s], a)
           early == [lev |-> 0, n |-> Len(BroadcastBuiltIn(a, "x")),
                     x |-> BroadcastBuiltIn(a, "x"), y |-> BroadcastBuiltIn(a, "y"),
                     z |-> BroadcastBuiltIn(a, "z"), ux |-> BroadcastBuiltIn(a, "ux"),
                     uy |-> BroadcastBuiltIn(a, "uy"), uz |-> BroadcastBuiltIn(a, "uz"),
                     nattr |-> 0, attr |-> <<>>, nattr_int |-> 0, attr_int |-> <<>>,
                     unique_particles |-> a.unique_particles]
       IN  IF FirstMismatch(a) # <<>>
           THEN /\ result' = r
                /\ UNCHANGED <<batches, ptiles>>
           ELSE /\ result' = IF r.tag = "raise" THEN r ELSE PyNone
                /\ batches' = [batches EXCEPT ![s] = Append(@, early)]
                /\ ptiles' = [ptiles EXCEPT ![s] = EngineAddNParticles(@, early)]
    /\ ncalls' = ncalls + 1
    /\ UNCHANGED <<geometry_dim, comps, buffer, call>>

\* add_particles on the wrapper of species call.species
add_particles ==
    /\ call.op = "add_particles"
    /\ ncalls < MaxCalls
    /\ LET s == call.species
           r == AddParticlesBatch(geometry_dim, comps[s], call.args)
       IN  IF r.tag = "raise"
           THEN /\ result' = r
                /\ UNCHANGED <<batches, ptiles>>
           ELSE /\ result' = PyNone
                /\ batches' = [batches EXCEPT ![s] = Append(@, r.val)]
                /\ ptiles' = [ptiles EXCEPT ![s] = EngineAddNParticles(@, r.val)]
    /\ ncalls' = ncalls + 1
    /\ UNCHANGED <<geometry_dim, comps, buffer, call>>

\* the boundary buffer maps a slot <<species, boundary index, level, tile>>
\* that holds scraped particles to how many it holds
EmptyBuffer == [slot \in {} |-> 0]

\* the engine before any call: nothing scraped, no particles
InitEngine ==
    /\ ptiles = [s \in Species |-> EmptyTiles]
    /\ batches = [s \in Species |-> <<>>]
    /\ buffer = EmptyBuffer

InitAdd ==
    /\ geometry_dim \in KnownGeometries
    /\ comps = [s \in Species |-> ExtraComps(geometry_dim)]
    /\ InitEngine
    /\ call \in { [op |-> "add_particles", species |-> "electrons", args |-> a] :
                    a \in {a \in AddArgs : Supplied(a) <= MaxSupplied} }
    /\ ncalls = 0
    /\ result = NoResult

NextAdd == add_particles

SpecAdd == InitAdd /\ [][NextAdd]_vars

----------------------------------------------------------------------------
(* Claims about add_particles, checked under SpecAdd *)

\* the spec's error kinds as the Python exceptions the code raises
ShapeMismatch == "AssertionError"
ConfigurationError == "RuntimeError"
UnsupportedOperation == "Exception"

AddCalled == call.op = "add_particles" /\ ncalls >= 1
AddSucceeded == AddCalled /\ result = PyNone
LastBatch == batches[call.species][Len(batches[call.species])]

SetMax(S) == IF S = {} THEN 0 ELSE CHOOSE m \in S : \A k \in S : k <= m

\* lengths of the supplied built-in columns, and of all supplied columns
BuiltInLens(a) == {a.b[f] : f \in DOMAIN a.b}
KwLens(a) == {a.kw[i][2] : i \in 1..Len(a.kw)}
KwKeys(a) == {a.kw[i][1] : i \in 1..Len(a.kw)}
NBuiltIn(a) == SetMax(BuiltInLens(a))
NAll(a) == SetMax(BuiltInLens(a) \cup KwLens(a))

\* the batch has n particles and every column of it has length n
BatchIsSquare(batch, n) ==
    /\ batch.n = n
    /\ \A f \in {"x", "y", "z", "ux", "uy", "uz"} : Len(batch[f]) = n
    /\ \A k \in 1..Len(batch.attr) : Len(batch.attr[k]) = n

\* an omitted position or momentum is all 0, a supplied one all the caller's value
BatchIsBroadcast(batch, a) ==
    \A f \in {"x", "y", "z", "ux", "uy", "uz"} :
        \A i \in 1..Len(batch[f]) :
            batch[f][i] = IF f \in DOMAIN a.b THEN FieldVal(f) ELSE 0

KwInSchema(a) == KwKeys(a) \subseteq DOMAIN comps[call.species]

Offenders(a) ==
    {f \in DOMAIN a.b : a.b[f] \notin {1, NBuiltIn(a)}}
    \cup {a.kw[i][1] : i \in {j \in 1..Len(a.kw) : a.kw[j][2] \notin {1, NBuiltIn(a)}}}

ExpectedColumn(key) ==
    comps[call.species][key] - (IF geometry_dim = "rz" THEN 4 ELSE 3)

\* C7 as claimed: in every submitted batch column 0 of the attribute table is
\* the broadcast weight, and every extra attribute sits in column (schema
\* index - 3, or - 4 in rz), which is one of the columns 1..nattr-1
C7_AsClaimed ==
    AddSucceeded
    => (/\ LastBatch.attr[1] =
             np_full(LastBatch.n,
                     IF "w" \in DOMAIN call.args.b THEN FieldVal("w") ELSE 0)
        /\ \A key \in KwKeys(call.args) :
             /\ ExpectedColumn(key) \in 1..(LastBatch.nattr - 1)
             /\ (LastBatch.n > 0 =>
                   LastBatch.attr[ExpectedColumn(key) + 1][1] = FieldVal(key)))

\* C11: a call of add_particles forwards at most one add_n_particles, and
\* only when every supplied length is 1 or the batch size and every extra
\* attribute is in the species' schema; a call that fails (shape mismatch or
\* unknown attribute) submits nothing and leaves the schemas, the particle
\* container and the boundary buffer as they were
C11_NoInsertUnlessChecked ==
    [][ call.op = "add_particles" =>
          LET s == call.species
              submitted == Len(batches'[s]) - Len(batches[s])
          IN  /\ submitted \in {0, 1}
              /\ \A o \in Species \ {s} :
                    batches'[o] = batches[o] /\ ptiles'[o] = ptiles[o]
              /\ (submitted = 1 =>
                    /\ Offenders(call.args) = {}
                    /\ KwInSchema(call.args)
                    /\ result' = PyNone)
              /\ (result'.tag = "raise" =>
                    /\ submitted = 0
                    /\ UNCHANGED <<comps, ptiles, batches, buffer>>) ]_vars

\* every length fits and x is an array of MaxLen, but theta is no attribute
\* of the species outside rz: the lookup has failed and nothing was submitted
C11_Witness ==
    /\ AddCalled
    /\ geometry_dim = "3d"
    /\ DOMAIN call.args.b = {"x"}
    /\ call.args.b["x"] = MaxLen
    /\ KwKeys(call.args) = {"theta"}
    /\ Offenders(call.args) = {}
    /\ result.tag = "raise"
    /\ result.subject = "theta"
    /\ batches[call.species] = <<>>
    /\ ptiles[call.species] = EmptyTiles

----------------------------------------------------------------------------
(* A caller looking a boundary token up, checked under SpecBoundary *)

\* one call of _get_boundary_number(call.boundary)
LookupBoundary ==
    /\ call.op = "_get_boundary_number"
    /\ ncalls < MaxCalls
    /\ result' = _get_boundary_number(geometry_dim, call.boundary)
    /\ ncalls' = ncalls + 1
    /\ UNCHANGED <<geometry_dim, comps, ptiles, batches, buffer, call>>

InitBoundary ==
    /\ geometry_dim \in Geometries
    /\ comps = [s \in Species |-> BaseComps(geometry_dim)]
    /\ InitEngine
    /\ call \in { [op |-> "_get_boundary_number", boundary |-> t] : t \in Tokens }
    /\ ncalls = 0
    /\ result = NoResult

NextBoundary == LookupBoundary

SpecBoundary == InitBoundary /\ [][NextBoundary]_vars

\* the spec's mapping table: the axes of a geometry, in index order
AxesOf(geom) ==
    IF geom = "3d" THEN <<Str_x, Str_y, Str_z>>
    ELSE IF geom \in {"2d", "rz"} THEN <<Str_x, Str_z>>
    ELSE IF geom = "1d" THEN <<Str_z>>
    ELSE <<>>

Sides == <<Str_lo, Str_hi>>

\* the well-formed tokens of a geometry other than 'eb'
SideTokens(geom) ==
    { Join(<<AxesOf(geom)[i], Sides[j]>>) : i \in 1..Len(AxesOf(geom)), j \in 1..2 }

LookupDone == call.op = "_get_boundary_number" /\ ncalls >= 1

\* C3: in each of the four geometries '<axis>_<side>' maps to 2*axis + side
\* (lo = 0, hi = 1) and 'eb' to twice the number of axes; x_lo in 3d is 0,
\* z_hi in 3d is 5, eb in 3d is 6 and eb in 1d is 2
C3_BoundaryCode ==
    (LookupDone /\ geometry_dim \in KnownGeometries)
    => /\ \A i \in 1..Len(AxesOf(geometry_dim)), j \in 1..2 :
            call.boundary = Join(<<AxesOf(geometry_dim)[i], Sides[j]>>)
            => result = Ok(2 * (i - 1) + (j - 1))
       /\ call.boundary = Str_eb => result = Ok(2 * Len(AxesOf(geometry_dim)))
       /\ (geometry_dim = "3d" /\ call.boundary = <<"x", "_", "l", "o">>) => result = Ok(0)
       /\ (geometry_dim = "3d" /\ call.boundary = <<"z", "_", "h", "i">>) => result = Ok(5)
       /\ (geometry_dim = "3d" /\ call.boundary = Str_eb) => result = Ok(6)
       /\ (geometry_dim = "1d" /\ call.boundary = Str_eb) => result = Ok(2)

\* z_hi looked up in 2d
C3_Witness ==
    /\ LookupDone
    /\ geometry_dim = "2d"
    /\ call.boundary = <<"z", "_", "h", "i">>
    /\ result = Ok(3)

\* C4 as claimed: a lookup under an unknown geometry, or of a token that is
\* neither 'eb' nor '<axis>_<lo|hi>' for an axis of the geometry, fails with
\* ConfigurationError
C4_AsClaimed ==
    (/\ LookupDone
     /\ \/ geometry_dim \notin KnownGeometries
        \/ call.boundary \notin SideTokens(geometry_dim) \cup {Str_eb})
    => (result.tag = "raise" /\ result.err = ConfigurationError)

----------------------------------------------------------------------------
(* ParticleContainerWrapper: the queries.  A numpy array that aliases engine *)
(* memory is the record of what it views: the expression fn over the struct *)
(* array of tile struct = <<level, tile>>, the real component comp, a second *)
(* operand other, and its number of elements.                               *)

\* most tiles a level of a species holds
MaxTiles == 2
\* particles on a tile
TileSizes == {2, 3}

Array(fn, struct, comp, other, size) ==
    [fn |-> fn, struct |-> struct, comp |-> comp, other |-> other, size |-> size]

\* the tiles WarpXParIter(particle_container, level) visits
ParIter(tiles, level) == [i \in 1..Len(tiles[level]) |-> <<level, i>>]

TileSize(tiles, t) == tiles[t[1]][t[2]]

get_particle_structs(tiles, level) ==
    [i \in 1..Len(tiles[level]) |->
        Array("aos", <<level, i>>, -1, <<>>, tiles[level][i])]

get_particle_arrays(c, tiles, comp_name, level) ==
    LET comp_idx == get_comp_index(c, comp_name)
    IN  IF comp_idx.tag = "raise" THEN comp_idx
        ELSE Ok([i \in 1..Len(tiles[level]) |->
                    Array("soa", <<level, i>>, comp_idx.val, <<>>, tiles[level][i])])

\* struct[field]
Field(struct, field) == Array(field, struct.struct, -1, <<>>, struct.size)

\* f(struct['x'], struct['y']) elementwise
Both(struct, fn) == Array(fn, struct.struct, -1, <<>>, struct.size)

\* whether numpy can multiply arrays of n and m elements
Broadcastable(n, m) == n = m \/ n = 1 \/ m = 1

RECURSIVE TimesTrig(_, _, _, _)
\* [struct['x']*np.cos(theta) for struct, theta in zip(structs, thetas)]
TimesTrig(fn, structs, thetas, i) ==
    IF i > Len(structs) \/ i > Len(thetas) THEN Ok(<<>>)
    ELSE IF ~Broadcastable(structs[i].size, thetas[i].size)
    THEN Raise("ValueError", fn)
    ELSE LET rest == TimesTrig(fn, structs, thetas, i + 1)
         IN  IF rest.tag = "raise" THEN rest
             ELSE Ok(<<Array(fn, structs[i].struct, thetas[i].comp, thetas[i].struct,
                             Max2(structs[i].size, thetas[i].size))>> \o rest.val)

MapSeq(seq, Op(_)) == [i \in 1..Len(seq) |-> Op(seq[i])]

get_particle_theta(geom, c, tiles, level) ==
    LET arctan2(struct) == Both(struct, "arctan2(y,x)")
    IN  IF geom = "rz" THEN get_particle_arrays(c, tiles, "theta", level)
        ELSE IF geom = "3d"
        THEN Ok(MapSeq(get_particle_structs(tiles, level), arctan2))
        ELSE IF geom = "2d" \/ geom = "1d"
        THEN Raise("Exception", "get_particle_theta")
        ELSE PyNone

\* get_particle_theta() as get_particle_x and get_particle_y call it: with
\* no argument, so at the default level 0
get_particle_theta_default(geom, c, tiles) == get_particle_theta(geom, c, tiles, 0)

get_particle_x(geom, c, tiles, level) ==
    LET structs == get_particle_structs(tiles, level)
        x(struct) == Field(struct, "x")
    IN  IF geom = "3d" \/ geom = "2d" THEN Ok(MapSeq(structs, x))
        ELSE IF geom = "rz"
        THEN LET theta == get_particle_theta_default(geom, c, tiles)
             IN  IF theta.tag = "raise" THEN theta
                 ELSE TimesTrig("x*cos(theta)", structs, theta.val, 1)
        ELSE IF geom = "1d" THEN Raise("Exception", "get_particle_x")
        ELSE PyNone

get_particle_y(geom, c, tiles, level) ==
    LET structs == get_particle_structs(tiles, level)
        y(struct) == Field(struct, "y")
    IN  IF geom = "3d" THEN Ok(MapSeq(structs, y))
        ELSE IF geom = "rz"
        THEN LET theta == get_particle_theta_default(geom, c, tiles)
             IN  IF theta.tag = "raise" THEN theta
                 ELSE TimesTrig("x*sin(theta)", structs, theta.val, 1)
        ELSE IF geom = "1d" \/ geom = "2d" THEN Raise("Exception", "get_particle_y")
        ELSE PyNone

get_particle_r(geom, c, tiles, level) ==
    LET structs == get_particle_structs(tiles, level)
        x(struct) == Field(struct, "x")
        hypot(struct) == Both(struct, "sqrt(x**2+y**2)")
    IN  IF geom = "rz" THEN Ok(MapSeq(structs, x))
        ELSE IF geom = "3d" THEN Ok(MapSeq(structs, hypot))
        ELSE IF geom = "2d" \/ geom = "1d" THEN Raise("Exception", "get_particle_r")
        ELSE PyNone

get_particle_z(geom, c, tiles, level) ==
    LET structs == get_particle_structs(tiles, level)
        x(struct) == Field(struct, "x")
        y(struct) == Field(struct, "y")
        z(struct) == Field(struct, "z")
    IN  IF geom = "3d" THEN Ok(MapSeq(structs, z))
        ELSE IF geom = "rz" \/ geom = "2d" THEN Ok(MapSeq(structs, y))
        ELSE IF geom = "1d" THEN Ok(MapSeq(structs, x))
        ELSE PyNone

Coordinates == {"x", "y", "z", "r", "theta"}

\* the call is repeated: made once more with the same arguments
Repeat(op) ==
    /\ call.op = op
    /\ ncalls < MaxCalls
    /\ ncalls' = ncalls + 1
    /\ UNCHANGED <<geometry_dim, call>>

EngineUnchanged == UNCHANGED <<comps, ptiles, batches, buffer>>

CallGetParticleX ==
    /\ Repeat("get_particle_x")
    /\ result' = get_particle_x(geometry_dim, comps[call.species],
                                ptiles[call.species], call.level)
    /\ EngineUnchanged

CallGetParticleY ==
    /\ Repeat("get_particle_y")
    /\ result' = get_particle_y(geometry_dim, comps[call.species],
                                ptiles[call.species], call.level)
    /\ EngineUnchanged

CallGetParticleZ ==
    /\ Repeat("get_particle_z")
    /\ result' = get_particle_z(geometry_dim, comps[call.species],
                                ptiles[call.species], call.level)
    /\ EngineUnchanged

CallGetParticleR ==
    /\ Repeat("get_particle_r")
    /\ result' = get_particle_r(geometry_dim, comps[call.species],
                                ptiles[call.species], call.level)
    /\ EngineUnchanged

CallGetParticleTheta ==
    /\ Repeat("get_particle_theta")
    /\ result' = get_particle_theta(geometry_dim, comps[call.species],
                                    ptiles[call.species], call.level)
    /\ EngineUnchanged

\* the tile layouts of one species: on each level up to MaxTiles tiles
TileSeqs == UNION { [1..n -> TileSizes] : n \in 0..MaxTiles }
TileLayouts == [Levels -> TileSeqs]

InitTiles ==
    /\ \E lay \in TileLayouts :
          ptiles = [s \in Species |-> IF s = "electrons" THEN lay ELSE EmptyTiles]
    /\ batches = [s \in Species |-> <<>>]
    /\ buffer = EmptyBuffer

CoordinateCalls ==
    { [op |-> "get_particle_" \o q, species |-> "electrons", level |-> l] :
        q \in Coordinates, l \in Levels }

InitQuery ==
    /\ geometry_dim \in KnownGeometries
    /\ comps = [s \in Species |-> BaseComps(geometry_dim)]
    /\ InitTiles
    /\ call \in CoordinateCalls
    /\ ncalls = 0
    /\ result = NoResult

NextQuery ==
    \/ CallGetParticleX
    \/ CallGetParticleY
    \/ CallGetParticleZ
    \/ CallGetParticleR
    \/ CallGetParticleTheta

SpecQuery == InitQuery /\ [][NextQuery]_vars

\* the coordinates a geometry does not have
Absent(geom) ==
    IF geom = "1d" THEN {"x", "y", "r", "theta"}
    ELSE IF geom = "2d" THEN {"y", "r", "theta"}
    ELSE {}

QueryDone(q) == call.op = "get_particle_" \o q /\ ncalls >= 1

\* C5 as claimed: in the four geometries a coordinate query fails with
\* UnsupportedOperation exactly when the geometry lacks the coordinate, and
\* otherwise returns a list with one array per tile of the level asked for
C5_AsClaimed ==
    \A q \in Coordinates :
        QueryDone(q)
        => IF q \in Absent(geometry_dim)
           THEN result.tag = "raise" /\ result.err = UnsupportedOperation
           ELSE /\ result.tag = "ok"
                /\ Len(result.val) = Len(ptiles[call.species][call.level])

\* the part of C5 that holds: UnsupportedOperation is raised exactly for the
\* coordinates the geometry lacks
C5_UnsupportedExactlyWhenAbsent ==
    \A q \in Coordinates :
        QueryDone(q)
        => ((result.tag = "raise" /\ result.err = UnsupportedOperation)
            <=> q \in Absent(geometry_dim))

\* the array of tile i that an rz query of x or y at the level should return:
\* the radial position times the cosine or sine of theta, both of tile i of
\* that level
FromSameTile(arr, fn, level, i) ==
    /\ arr.fn = fn
    /\ arr.struct = <<level, i>>
    /\ arr.other = <<level, i>>
    /\ arr.comp = comps[call.species]["theta"]
    /\ arr.size = ptiles[call.species][level][i]

RzTrig(q) == IF q = "x" THEN "x*cos(theta)" ELSE "x*sin(theta)"

\* C12 as claimed: in rz, get_particle_x and get_particle_y at any level
\* return one array per tile of that level, each computed from the radial
\* position and the theta of that same tile at that same level
C12_AsClaimed ==
    \A q \in {"x", "y"} :
        (geometry_dim = "rz" /\ QueryDone(q))
        => /\ result.tag = "ok"
           /\ Len(result.val) = Len(ptiles[call.species][call.level])
           /\ \A i \in 1..Len(result.val) :
                 FromSameTile(result.val[i], RzTrig(q), call.level, i)

\* the part of C12 that holds: at level 0, the level theta is always read at
C12_SameTileAtLevel0 ==
    \A q \in {"x", "y"} :
        (geometry_dim = "rz" /\ QueryDone(q) /\ call.level = 0)
        => /\ result.tag = "ok"
           /\ Len(result.val) = Len(ptiles[call.species][0])
           /\ \A i \in 1..Len(result.val) :
                 FromSameTile(result.val[i], RzTrig(q), 0, i)

----------------------------------------------------------------------------
(* The engine's boundary buffer *)

Count(buf, slot) == IF slot \in DOMAIN buf THEN buf[slot] ELSE 0

\* the boundary indices the engine keeps a buffer for: two per axis, then eb
BoundaryIndices(geom) == 0..(2 * Len(AxesOf(geom)))

Slots(geom) == Species \X BoundaryIndices(geom) \X Levels \X TileIds

RECURSIVE SumCounts(_, _)
SumCounts(buf, slots) ==
    IF slots = {} THEN 0
    ELSE LET slot == CHOOSE x \in slots : TRUE
         IN  buf[slot] + SumCounts(buf, slots \ {slot})

\* particle_buffer.get_num_particles_in_container(species, boundary, local)
get_num_particles_in_container(buf, species, bn) ==
    SumCounts(buf, {slot \in DOMAIN buf : slot[1] = species /\ slot[2] = bn})

\* particle_buffer.clear_particles()
clear_particles(buf) == EmptyBuffer

\* the engine scrapes one more particle into a slot
ScrapeInto(buf, slot) ==
    IF slot \in DOMAIN buf THEN [buf EXCEPT ![slot] = @ + 1]
    ELSE buf @@ (slot :> 1)

\* the tiles BoundaryBufferParIter(part_container, level) visits, in order
RECURSIVE Ascending(_)
Ascending(S) ==
    IF S = {} THEN <<>>
    ELSE LET least == CHOOSE x \in S : \A y \in S : x <= y
         IN  <<least>> \o Ascending(S \ {least})

BoundaryBufferParIter(buf, species, bn, level) ==
    Ascending({t \in TileIds : <<species, bn, level, t>> \in DOMAIN buf})

\* part_container.num_int_comps() of a buffer container: the species' own
\* integer components, then the step at which the particle was scraped
SpeciesIntComps(species) == IF species = "ions" THEN 1 ELSE 0
num_int_comps(species) == SpeciesIntComps(species) + 1

----------------------------------------------------------------------------
(* ParticleBoundaryBufferWrapper *)

\* an array of a tile of the boundary buffer
BufferArray(kind, species, bn, level, tile, comp, size) ==
    [kind |-> kind, species |-> species, bn |-> bn, level |-> level,
     tile |-> tile, comp |-> comp, size |-> size]

get_particle_boundary_buffer_size(geom, buf, species_name, boundary) ==
    LET bn == _get_boundary_number(geom, boundary)
    IN  IF bn.tag = "raise" THEN bn
        ELSE Ok(get_num_particles_in_container(buf, species_name, bn.val))

\* the names the module binds: its two imports and its two classes
ModuleGlobals == {"np", "libwarpx", "ParticleContainerWrapper",
                  "ParticleBoundaryBufferWrapper"}

\* the attributes __init__ gives a ParticleBoundaryBufferWrapper
BufferWrapperAttributes == {"particle_buffer"}

\* get_particle_boundary_buffer_structs: its first statement calls _LP_c_int,
\* a name the module never binds (nor ctypes, nor _libc, nor the attributes
\* libwarpx_so, _array1d_from_pointer and _p_dtype)
get_particle_boundary_buffer_structs(geom, buf, species_name, boundary, level) ==
    IF "_LP_c_int" \notin ModuleGlobals THEN Raise("NameError", "_LP_c_int")
    ELSE IF "ctypes" \notin ModuleGlobals THEN Raise("NameError", "ctypes")
    ELSE IF "libwarpx_so" \notin BufferWrapperAttributes
    THEN Raise("AttributeError", "libwarpx_so")
    ELSE LET bn == _get_boundary_number(geom, boundary)
         IN  IF bn.tag = "raise" THEN bn
             ELSE LET tiles == BoundaryBufferParIter(buf, species_name, bn.val, level)
                  IN  Ok([i \in 1..Len(tiles) |->
                            BufferArray("aos", species_name, bn.val, level, tiles[i], -1,
                                        buf[<<species_name, bn.val, level, tiles[i]>>])])

\* "the step scraped is always the final integer component"
\* a comp_idx one past the final integer component
StepScrapedIndex_PastEnd(species_name) == num_int_comps(species_name)

StepScrapedIndex(species_name) == num_int_comps(species_name) - 1

get_particle_boundary_buffer(geom, cs, buf, species_name, boundary, comp_name, level) ==
    LET bn == _get_boundary_number(geom, boundary)
    IN  IF bn.tag = "raise" THEN bn
        ELSE LET tiles == BoundaryBufferParIter(buf, species_name, bn.val, level)
                 data(kind, comp_idx) ==
                    Ok([i \in 1..Len(tiles) |->
                          BufferArray(kind, species_name, bn.val, level, tiles[i], comp_idx,
                                      buf[<<species_name, bn.val, level, tiles[i]>>])])
             IN  IF comp_name = "step_scraped"
                 THEN data("int", StepScrapedIndex(species_name))
                 ELSE LET comp_idx == get_comp_index(cs[species_name], comp_name)
                      IN  IF comp_idx.tag = "raise" THEN comp_idx
                          ELSE data("real", comp_idx.val)

\* a clear_buffer that forwards nothing
clear_buffer_NoForward(buf) == buf

\* clear_buffer: the one forwarded call
clear_buffer(buf) == clear_particles(buf)

\* the boundary names of the docstrings: "x/y/z_hi/lo or eb"
DocTokens == SideTokens("3d") \cup {Str_eb}

CompNames == {"step_scraped", "w", "theta"}

\* a size query that drains the buffer it has counted
CallGetBufferSize_Draining ==
    /\ Repeat("get_particle_boundary_buffer_size")
    /\ result' = get_particle_boundary_buffer_size(geometry_dim, buffer,
                                                   call.species, call.boundary)
    /\ buffer' = clear_particles(buffer)
    /\ UNCHANGED <<comps, ptiles, batches>>

CallGetBufferSize ==
    /\ Repeat("get_particle_boundary_buffer_size")
    /\ result' = get_particle_boundary_buffer_size(geometry_dim, buffer,
                                                   call.species, call.boundary)
    /\ EngineUnchanged

CallGetBufferStructs ==
    /\ Repeat("get_particle_boundary_buffer_structs")
    /\ result' = get_particle_boundary_buffer_structs(geometry_dim, buffer,
                        call.species, call.boundary, call.level)
    /\ EngineUnchanged

CallGetBuffer ==
    /\ Repeat("get_particle_boundary_buffer")
    /\ result' = get_particle_boundary_buffer(geometry_dim, comps, buffer,
                        call.species, call.boundary, call.comp_name, call.level)
    /\ EngineUnchanged

CallClearBuffer ==
    /\ Repeat("clear_buffer")
    /\ buffer' = clear_buffer(buffer)
    /\ result' = PyNone
    /\ UNCHANGED <<comps, ptiles, batches>>

\* what the engine has scraped when a caller looks: on each level l one
\* particle on each tile of p[l], for the electrons at every lo boundary and
\* the embedded boundary and for the ions at every hi boundary
ScrapedPattern(geom, p) ==
    [slot \in {x \in Slots(geom) :
                 /\ x[4] \in p[x[3]]
                 /\ (x[1] = "electrons") <=> (x[2] % 2 = 0)} |-> 1]

BufferCalls ==
    { [op |-> "get_particle_boundary_buffer_size", species |-> sp, boundary |-> t] :
        sp \in Species, t \in DocTokens }
    \cup
    { [op |-> "get_particle_boundary_buffer_structs", species |-> sp, boundary |-> t,
       level |-> l] : sp \in Species, t \in DocTokens, l \in Levels }
    \cup
    { [op |-> "get_particle_boundary_buffer", species |-> sp, boundary |-> t,
       comp_name |-> n, level |-> l] :
        sp \in Species, t \in DocTokens, n \in CompNames, l \in Levels }
    \cup
    { [op |-> "clear_buffer"] }

InitBuffer ==
    /\ geometry_dim \in KnownGeometries
    /\ comps = [s \in Species |-> BaseComps(geometry_dim)]
    /\ ptiles = [s \in Species |-> EmptyTiles]
    /\ batches = [s \in Species |-> <<>>]
    /\ \E p \in [Levels -> SUBSET TileIds] : buffer = ScrapedPattern(geometry_dim, p)
    /\ call \in BufferCalls
    /\ ncalls = 0
    /\ result = NoResult

NextBuffer ==
    \/ CallGetBufferSize
    \/ CallGetBufferStructs
    \/ CallGetBuffer
    \/ CallClearBuffer

SpecBuffer == InitBuffer /\ [][NextBuffer]_vars

----------------------------------------------------------------------------
(* The boundary buffer over time: the engine scrapes, callers clear and ask *)

TotalScraped(buf) == SumCounts(buf, DOMAIN buf)

\* the engine scrapes a particle at some boundary of the geometry
EngineScrape ==
    /\ TotalScraped(buffer) < MaxScraped
    /\ \E slot \in Slots(geometry_dim) : buffer' = ScrapeInto(buffer, slot)
    /\ call' = [op |-> "engine_scrape"]
    /\ result' = NoResult
    /\ UNCHANGED <<geometry_dim, comps, ptiles, batches, ncalls>>

\* a caller clears the buffer
NewClearBuffer ==
    /\ buffer' = clear_buffer(buffer)
    /\ call' = [op |-> "clear_buffer"]
    /\ result' = PyNone
    /\ ncalls' = 1
    /\ UNCHANGED <<geometry_dim, comps, ptiles, batches>>

\* a caller asks for the size of one buffer
NewGetBufferSize ==
    /\ \E sp \in Species, t \in DocTokens :
         /\ call' = [op |-> "get_particle_boundary_buffer_size",
                     species |-> sp, boundary |-> t]
         /\ result' = get_particle_boundary_buffer_size(geometry_dim, buffer, sp, t)
    /\ ncalls' = 1
    /\ UNCHANGED <<geometry_dim, comps, ptiles, batches, buffer>>

InitScraping ==
    /\ geometry_dim \in KnownGeometries
    /\ comps = [s \in Species |-> BaseComps(geometry_dim)]
    /\ InitEngine
    /\ call = [op |-> "none"]
    /\ ncalls = 0
    /\ result = NoResult

NextScraping ==
    \/ EngineScrape
    \/ NewClearBuffer
    \/ NewGetBufferSize

SpecScraping == InitScraping /\ [][NextScraping]_vars

----------------------------------------------------------------------------
(* Claims about the boundary buffer *)

\* the well-formed tokens of a geometry
ValidTokens(geom) == SideTokens(geom) \cup {Str_eb}

\* the boundary index the spec's table gives a well-formed token
TableIndex(geom, token) ==
    IF token = Str_eb THEN 2 * Len(AxesOf(geom))
    ELSE LET ij == CHOOSE ij \in (1..Len(AxesOf(geom))) \X (1..2) :
                      token = Join(<<AxesOf(geom)[ij[1]], Sides[ij[2]]>>)
         IN  2 * (ij[1] - 1) + (ij[2] - 1)

AllSizesZero ==
    \A sp \in Species, t \in ValidTokens(geometry_dim) :
        get_particle_boundary_buffer_size(geometry_dim, buffer, sp, t) = Ok(0)

\* C6: once clear_buffer has run, the size of every species' buffer at every
\* valid boundary (eb included) is 0, and stays 0 through every later call
\* until the engine scrapes again
C6_ZeroAfterClear ==
    [][ /\ (call'.op = "clear_buffer" => AllSizesZero')
        /\ ((call'.op # "engine_scrape" /\ AllSizesZero) => AllSizesZero') ]_vars

\* clear_buffer has just run and every size is 0
C6_Witness ==
    /\ call.op = "clear_buffer"
    /\ ncalls >= 1
    /\ result = PyNone
    /\ AllSizesZero
    /\ get_particle_boundary_buffer_size(geometry_dim, buffer, "ions", Str_eb) = Ok(0)

\* the tiles of a buffer container that hold scraped particles at a level
TilesAt(sp, bn, level) == {t \in TileIds : Count(buffer, <<sp, bn, level, t>>) > 0}

\* C8 as claimed: for a valid boundary token get_particle_boundary_buffer_structs
\* completes and returns one struct array per tile that holds scraped particles
C8_AsClaimed ==
    (/\ call.op = "get_particle_boundary_buffer_structs"
     /\ ncalls >= 1
     /\ call.boundary \in ValidTokens(geometry_dim))
    => (/\ result.tag = "ok"
        /\ Len(result.val) =
             Cardinality(TilesAt(call.species,
                                 TableIndex(geometry_dim, call.boundary), call.level)))

BufferQueried ==
    /\ call.op = "get_particle_boundary_buffer"
    /\ ncalls >= 1
    /\ call.boundary \in ValidTokens(geometry_dim)

\* result is one array of the given kind and component for each tile of the
\* call's buffer container at the call's level
OneArrayPerTile(kind, comp) ==
    LET bn == TableIndex(geometry_dim, call.boundary)
        tiles == TilesAt(call.species, bn, call.level)
    IN  /\ result.tag = "ok"
        /\ Len(result.val) = Cardinality(tiles)
        /\ {result.val[i].tile : i \in 1..Len(result.val)} = tiles
        /\ \A i \in 1..Len(result.val) :
             /\ result.val[i].kind = kind
             /\ result.val[i].comp = comp
             /\ result.val[i].species = call.species
             /\ result.val[i].bn = bn
             /\ result.val[i].level = call.level

\* C9: with comp_name 'step_scraped' get_particle_boundary_buffer returns, per
\* tile of the buffer container at the level, the integer component at index
\* num_int_comps - 1; with another name the real component at the index the
\* species' schema reports; an unknown name fails through the lookup
C9_BufferComponent ==
    BufferQueried
    => IF call.comp_name = "step_scraped"
       THEN OneArrayPerTile("int", num_int_comps(call.species) - 1)
       ELSE IF call.comp_name \in DOMAIN comps[call.species]
       THEN OneArrayPerTile("real", comps[call.species][call.comp_name])
       ELSE result = Raise("EngineError", call.comp_name)

\* the ions' step_scraped on two tiles: their second integer component
C9_Witness ==
    /\ BufferQueried
    /\ call.species = "ions"
    /\ call.comp_name = "step_scraped"
    /\ Len(result.val) = 2
    /\ result.val[1].kind = "int"
    /\ result.val[2].comp = 1

----------------------------------------------------------------------------
(* ParticleContainerWrapper: the remaining operations *)

get_particle_count(tiles) == Ok(total_number_of_particles(tiles))

\* add_real_comp: the one forwarded call
add_real_comp(c, pid_name) == EngineAddRealComp(c, pid_name)

CallGetParticleCount ==
    /\ Repeat("get_particle_count")
    /\ result' = get_particle_count(ptiles[call.species])
    /\ EngineUnchanged

CallAddRealComp ==
    /\ Repeat("add_real_comp")
    /\ comps' = [comps EXCEPT ![call.species] = add_real_comp(@, call.pid_name)]
    /\ result' = PyNone
    /\ UNCHANGED <<ptiles, batches, buffer>>

CallGetParticleStructs ==
    /\ Repeat("get_particle_structs")
    /\ result' = Ok(get_particle_structs(ptiles[call.species], call.level))
    /\ EngineUnchanged

CallGetParticleArrays ==
    /\ Repeat("get_particle_arrays")
    /\ result' = get_particle_arrays(comps[call.species], ptiles[call.species],
                                     call.comp_name, call.level)
    /\ EngineUnchanged

ContainerCalls ==
    { [op |-> "get_particle_count", species |-> "electrons"] }
    \cup
    { [op |-> "add_real_comp", species |-> "electrons", pid_name |-> n] :
        n \in {"extra1", "w"} }
    \cup
    { [op |-> "get_particle_structs", species |-> "electrons", level |-> l] :
        l \in Levels }
    \cup
    { [op |-> "get_particle_arrays", species |-> "electrons", comp_name |-> n,
       level |-> l] : n \in {"w", "theta", "extra1"}, l \in Levels }

InitContainer ==
    /\ geometry_dim \in KnownGeometries
    /\ comps = [s \in Species |-> BaseComps(geometry_dim)]
    /\ InitTiles
    /\ call \in ContainerCalls
    /\ ncalls = 0
    /\ result = NoResult

----------------------------------------------------------------------------
(* Every operation of the two wrappers, called and called again *)

Init == InitAdd \/ InitQuery \/ InitContainer \/ InitBuffer

Next ==
    \/ add_particles
    \/ CallAddRealComp
    \/ CallGetParticleCount
    \/ CallGetParticleStructs
    \/ CallGetParticleArrays
    \/ CallGetParticleX
    \/ CallGetParticleY
    \/ CallGetParticleZ
    \/ CallGetParticleR
    \/ CallGetParticleTheta
    \/ CallGetBufferSize
    \/ CallGetBufferStructs
    \/ CallGetBuffer
    \/ CallClearBuffer

Spec == Init /\ [][Next]_vars

Engine == <<comps, ptiles, batches, buffer>>

\* a step that makes the same call again
Again == ncalls >= 1 /\ ncalls' = ncalls + 1

\* C10 as claimed: for every operation, the call made again leaves the
\* engine (schemas, particle container contents, boundary buffer) as the
\* first call left it and returns what the first returned
C10_AsClaimed ==
    [][ Again => (/\ UNCHANGED <<comps, ptiles, buffer>>
                  /\ result' = result) ]_vars

\* C10, amended: every operation except a successful add_particles is
\* idempotent in that sense, and forwards nothing to the container; a
\* successful add_particles returns the same but submits its batch again,
\* so each call adds its N particles once more
C10_IdempotentExceptAdd ==
    [][ Again =>
          IF call.op = "add_particles" /\ result' = PyNone
          THEN /\ result' = result
               /\ Len(batches'[call.species]) = Len(batches[call.species]) + 1
               /\ total_number_of_particles(ptiles'[call.species])
                    = total_number_of_particles(ptiles[call.species])
                      + NBuiltIn(call.args)
               /\ UNCHANGED <<comps, buffer>>
          ELSE Engine' = Engine /\ result' = result ]_vars

\* add_real_comp("extra1") called twice has added one component, once
C10_Witness ==
    /\ call.op = "add_real_comp"
    /\ call.pid_name = "extra1"
    /\ ncalls = 2
    /\ comps[call.species] = ExtraComps(geometry_dim)

====
